---------------------------- MODULE Spec2Model ----------------------------
(***************************************************************************)
(* A model of the BusTub storage substrate: the LRU-K replacer, the buffer *)
(* pool manager, the disk scheduler and the persistent trie.               *)
(*                                                                         *)
(* The four subsystems are modelled as four state machines over one set of *)
(* variables; each has its own initial predicate, next-state relation and  *)
(* specification (SpecLRU, SpecBPM, SpecSched / SpecSchedFair, SpecTrie).  *)
(* A specification leaves the variables of the other subsystems at their   *)
(* initial values.                                                         *)
(***************************************************************************)
EXTENDS Integers, Sequences, FiniteSets, TLC

VARIABLES
    replacer,   \* LRUKReplacer: node_store_, evictable_node_, replacer_size_, curr_size_, ...
    clock,      \* the latest value std::chrono::system_clock::now() has returned to RecordAccess
    lru_last,   \* the replacer call made by the last step (history variable)
    bpm,        \* BufferPoolManager: pages_, page_table_, free_list_, next_page_id_, replacer_,
                \* with the disk behind the scheduler and the clock its replacer reads
    bpm_last,   \* the buffer pool call made by the last step (history variable)
    bpm_ids     \* the page ids NewPage has returned so far (history variable)

VARIABLES
    request_queue_, \* DiskScheduler: the channel of requests, std::nullopt among them
    m_holder,       \* the thread that holds the mutex m_ (NoThread: nobody)
    wpc,            \* where each worker thread stands in StartWorkerThread
    wreq,           \* the request each worker has taken from the queue
    ppc,            \* where each producer thread stands in Schedule
    pnext,          \* the next request each producer passes to Schedule
    dpc,            \* where the destructor stands
    dput,           \* the sentinels the destructor has put so far
    calls,          \* the calls the disk gateway has received, in order
    dequeued,       \* how often each request has been taken from the queue
    resolved,       \* how often each request's promise has been set
    gateway,        \* how the gateway call made for each request ended
    promise         \* the values each request's promise has been set to, in order

VARIABLES
    trie_nodes,     \* the trie nodes allocated so far, by address (1 .. Len(trie_nodes))
    tries,          \* the root_ of every Trie handed out so far, the empty trie first
    trie_last,      \* the trie call made by the last step and how it ended (history variable)
    trie_got,       \* what the last Get returned
    latch_,         \* the thread that holds the buffer pool's latch_, or NoThread
    threads,        \* where every client thread of the pool is in its call
    ncalls          \* the public pool calls the client threads have made

lruVars == <<replacer, clock, lru_last>>

bpmVars == <<bpm, bpm_last, bpm_ids>>

schedVars == <<request_queue_, m_holder, wpc, wreq, ppc, pnext, dpc, dput, calls,
               dequeued, resolved, gateway, promise>>

trieVars == <<trie_nodes, tries, trie_last, trie_got>>

thrVars == <<latch_, threads, ncalls>>

vars == <<replacer, clock, lru_last, bpm, bpm_last, bpm_ids,
          request_queue_, m_holder, wpc, wreq, ppc, pnext, dpc, dput, calls,
          dequeued, resolved, gateway, promise, trie_nodes, tries, trie_last, trie_got,
          latch_, threads, ncalls>>

notLru == <<bpmVars, schedVars, trieVars, thrVars>>

notBpm == <<lruVars, schedVars, trieVars, thrVars>>

notSched == <<lruVars, bpmVars, trieVars, thrVars>>

notTrie == <<lruVars, bpmVars, schedVars, thrVars>>

notThr == <<lruVars, schedVars, trieVars, bpm_last, bpm_ids>>

(***************************************************************************)
(* Bounds of the model.                                                    *)
(***************************************************************************)
\* timestamps handed out by the clock: 1 .. MaxClock
MaxClock == 4
\* frame ids the replacer is driven with in SpecLRU: 0 .. LruFrames - 1
LruFrames == 3
\* num_frames given to the replacer's constructor in SpecLRU
LruCapacity == 2
\* k given to the replacer's constructor
ReplacerK == 2
\* pool_size given to the buffer pool's constructor
PoolSize == 2
\* page ids the pool hands out and is asked for: 0 .. MaxPages - 1
MaxPages == 3
\* a page is pinned at most MaxPin times at once
MaxPin == 2
\* timestamps the pool's replacer records: 1 .. BpmMaxClock
BpmMaxClock == 7
\* worker threads of the disk scheduler (the constructor starts num_threads + 1)
SchedWorkers == 2
\* threads that call Schedule
SchedProducers == 2
\* requests passed to Schedule, dealt to the producers in turn
SchedRequests == 2

\* the trie calls (Put and Remove) made in one run
MaxTrieOps == 3
\* client threads that call the buffer pool at the same time
PoolThreads == 2
\* the public pool calls the client threads make in one run
MaxPoolCalls == 4

(***************************************************************************)
(* Program constants.                                                      *)
(***************************************************************************)
\* INVALID_PAGE_ID, also used by Evict as "no frame"
INVALID_PAGE_ID == -1
\* SIZE_MAX stands for 2^64 - 1: a value above every distance now - timestamp.
\* TLC's integers are 32 bits wide, so the largest of them stands for it.
SIZE_MAX == 2147483647

(***************************************************************************)
(* Helpers on sequences.                                                   *)
(***************************************************************************)
Last(s) == s[Len(s)]

Front(s) == SubSeq(s, 1, Len(s) - 1)

RECURSIVE SetToSeq(_)
SetToSeq(S) ==
    IF S = {} THEN <<>>
    ELSE LET x == CHOOSE y \in S : \A z \in S : y <= z
         IN <<x>> \o SetToSeq(S \ {x})

\* insert the pair x into s, sorted by decreasing second component, behind every
\* element that does not compare greater-than-x false, i.e. behind all e with
\* e[2] >= x[2]: the order among equal keys is the order of insertion (stable)
RECURSIVE InsertDesc(_, _)
InsertDesc(s, x) ==
    IF s = <<>> THEN <<x>>
    ELSE IF x[2] > s[1][2] THEN <<x>> \o s
    ELSE <<s[1]>> \o InsertDesc(Tail(s), x)

RECURSIVE StableSortDesc(_)
StableSortDesc(s) ==
    IF s = <<>> THEN <<>>
    ELSE InsertDesc(StableSortDesc(Front(s)), Last(s))

\* Body applied to the value of x: x is evaluated once, like a local variable
\* that is assigned the result of a call
Bind(x, Body(_)) == CHOOSE y \in { Body(v) : v \in {x} } : TRUE

(***************************************************************************)
(* LRUKReplacer (src/buffer/lru_k_replacer.cpp).                           *)
(* The replacer is a record; every public method is an operator from the   *)
(* replacer (and the arguments) to a record [r |-> the replacer after the   *)
(* call, threw |-> whether the call threw, ...].  All methods run under     *)
(* std::scoped_lock on latch_, so each is atomic and a throw releases it.   *)
(***************************************************************************)
\* the is_evictable_ a default-constructed LRUKNode carries
LRUKNodeDefaultEvictable == FALSE

NewReplacer(num_frames, k) ==
    [ node_store_        |-> << >>,
      evictable_node_    |-> {},
      replacer_size_     |-> 0,
      curr_size_         |-> 0,
      current_timestamp_ |-> 0,
      max_size_          |-> num_frames,
      k_                 |-> k ]

Known(r, f) == f \in DOMAIN r.node_store_

\* AddFrames: a new node holding the current timestamp
AddFrames(r, f) ==
    [ r EXCEPT
        !.curr_size_  = @ + 1,
        !.node_store_ = [ g \in (DOMAIN @) \cup {f} |->
                            IF g = f
                            THEN [ history_      |-> << r.current_timestamp_ >>,
                                   is_evictable_ |-> LRUKNodeDefaultEvictable ]
                            ELSE @[g] ] ]

\* RecordAccess(frame_id) at time now
RecordAccess(r, f, now) ==
    LET r1 == [ r EXCEPT !.current_timestamp_ = now ]
    IN  IF r1.curr_size_ = 0 \/ ~Known(r1, f)
        THEN AddFrames(r1, f)
        ELSE LET pushed == << now >> \o r1.node_store_[f].history_
                 h == IF Len(pushed) > r1.k_ THEN Front(pushed) ELSE pushed
             IN  [ r1 EXCEPT !.node_store_[f].history_ = h ]

\* EnableEvictable: the count is raised before the capacity check
EnableEvictable(r, f) ==
    LET r1 == [ r EXCEPT !.replacer_size_ = @ + 1 ]
    IN  IF r1.replacer_size_ > r1.max_size_
        THEN [ r |-> r1, threw |-> TRUE ]
        ELSE [ r |-> [ r1 EXCEPT !.node_store_[f].is_evictable_ = TRUE,
                                  !.evictable_node_ = @ \cup {f} ],
               threw |-> FALSE ]

DisableEvictable(r, f) ==
    [ r EXCEPT !.replacer_size_ = @ - 1,
               !.node_store_[f].is_evictable_ = FALSE,
               !.evictable_node_ = @ \ {f} ]

SetEvictable(r, f, set_evictable) ==
    IF ~Known(r, f) THEN [ r |-> r, threw |-> TRUE ]
    ELSE LET is_evictable == r.node_store_[f].is_evictable_
         IN  IF set_evictable = is_evictable THEN [ r |-> r, threw |-> FALSE ]
             ELSE IF set_evictable /\ ~is_evictable THEN EnableEvictable(r, f)
             ELSE [ r |-> DisableEvictable(r, f), threw |-> FALSE ]

\* erase frame f from node_store_ and evictable_node_ and lower both counters
EraseNode(r, f) ==
    [ r EXCEPT !.node_store_     = [ g \in (DOMAIN @) \ {f} |-> @[g] ],
               !.evictable_node_ = @ \ {f},
               !.replacer_size_  = @ - 1,
               !.curr_size_      = @ - 1 ]

\* a variant of Remove that erases a known frame whatever its flag
RemoveAnyFrame(r, f) ==
    IF ~Known(r, f) THEN [ r |-> r, threw |-> FALSE ]
    ELSE [ r |-> EraseNode(r, f), threw |-> FALSE ]

Remove(r, f) ==
    IF ~Known(r, f) THEN [ r |-> r, threw |-> FALSE ]
    ELSE IF ~r.node_store_[f].is_evictable_ THEN [ r |-> r, threw |-> TRUE ]
    ELSE [ r |-> EraseNode(r, f), threw |-> FALSE ]

Size(r) == r.replacer_size_

EvictVectorUnpatched(r, now) ==
    LET ids  == SetToSeq(DOMAIN r.node_store_)
        vec0 == [ i \in 1..Len(ids) |->
                    << ids[i], now - Last(r.node_store_[ids[i]].history_) >> ]
    IN  StableSortDesc(vec0)

\* the vector of (frame, k_dist) Evict builds, sorts, patches and sorts again
EvictVector(r, now) ==
    LET ids  == SetToSeq(DOMAIN r.node_store_)
        vec0 == [ i \in 1..Len(ids) |->
                    << ids[i], now - Last(r.node_store_[ids[i]].history_) >> ]
        vec1 == StableSortDesc(vec0)
        vec2 == [ i \in 1..Len(vec1) |->
                    IF Len(r.node_store_[vec1[i][1]].history_) # r.k_
                    THEN << vec1[i][1], SIZE_MAX >>
                    ELSE vec1[i] ]
    IN  StableSortDesc(vec2)

\* the first evictable frame of the vector, or INVALID_PAGE_ID
RECURSIVE FirstEvictable(_, _)
FirstEvictable(r, vec) ==
    IF vec = <<>> THEN INVALID_PAGE_ID
    ELSE IF r.node_store_[vec[1][1]].is_evictable_ THEN vec[1][1]
    ELSE FirstEvictable(r, Tail(vec))

\* Evict at time now: [r, ok, frame_id]
Evict(r, now) ==
    LET result == FirstEvictable(r, EvictVector(r, now))
    IN  IF result = INVALID_PAGE_ID
        THEN [ r |-> r, ok |-> FALSE, frame_id |-> INVALID_PAGE_ID ]
        ELSE [ r |-> EraseNode(r, result), ok |-> TRUE, frame_id |-> result ]

LruFrameIds == 0 .. (LruFrames - 1)

\* lru_last: the call, the frame id it was given (Evict: the frame it returned),
\* the flag given to SetEvictable, what Evict returned, whether the call threw,
\* and what Size returned
NoCall == [ op |-> "none", frame |-> INVALID_PAGE_ID, flag |-> FALSE,
            ok |-> FALSE, threw |-> FALSE, size |-> 0 ]


(***************************************************************************)
(* BufferPoolManager (src/buffer/buffer_pool_manager.cpp).                 *)
(* The pool is a record b; every method is an operator from the pool (and  *)
(* the arguments) to a record [b |-> the pool after the call, ret |-> what *)
(* the call returned (TRUE for a page, FALSE for nullptr), threw |->       *)
(* whether a replacer call threw out of it, io |-> the disk requests it    *)
(* scheduled, in order].  Every public method holds latch_ from its first  *)
(* to its last statement and waits for each disk request it schedules      *)
(* (future.get()), so a call is one atomic step and a disk request is      *)
(* taken at its completion.                                                *)
(***************************************************************************)
FrameIds == 0 .. (PoolSize - 1)

PageIds == 0 .. (MaxPages - 1)

\* the bytes ResetMemory leaves in a frame
ZeroData == 0

\* bytes a client writes into a page it has pinned
ClientData == 1

\* a frame as ResetFrame leaves it
EmptyPage ==
    [ page_id_ |-> INVALID_PAGE_ID, pin_count_ |-> 0, is_dirty_ |-> FALSE, data_ |-> ZeroData ]

NewBPM(pool_size, replacer_k) ==
    [ pages_        |-> [ f \in 0 .. (pool_size - 1) |-> EmptyPage ],
      page_table_   |-> << >>,
      free_list_    |-> [ i \in 1 .. pool_size |-> i - 1 ],
      next_page_id_ |-> 0,
      replacer_     |-> NewReplacer(pool_size, replacer_k),
      disk          |-> [ p \in PageIds |-> ZeroData ],
      gateway_fails |-> FALSE,
      now           |-> 0 ]

Resident(b, p) == p \in DOMAIN b.page_table_

\* a variant of PageTableErase that erases nothing
PageTableKeep(pt, p) == pt

\* page_table_.erase(p)
PageTableErase(pt, p) == [ q \in (DOMAIN pt) \ {p} |-> pt[q] ]

\* page_table_[p] = f
PageTablePut(pt, p, f) == [ q \in (DOMAIN pt) \cup {p} |-> IF q = p THEN f ELSE pt[q] ]

ResetFrame(b, f) == [ b EXCEPT !.pages_[f] = EmptyPage ]

\* replacer_->RecordAccess(f): the clock is read once more
BpmRecordAccess(b, f) ==
    [ b EXCEPT !.now = @ + 1,
               !.replacer_ = RecordAccess(@, f, b.now + 1) ]

\* the pages of the model whose reads and writes can fail (a bad block)
BadPages == { 0 }

\* the gateway fails the request for the page held by frame f: b.gateway_fails
\* says whether it fails the requests for bad pages during the call in progress
GatewayFails(b, f) == b.gateway_fails /\ b.pages_[f].page_id_ \in BadPages

\* Schedule({true, data of f, page id of f}); future.get(): the gateway's write,
\* which leaves the disk as it was when it fails; the value of the future is
\* not looked at
DiskWrite(b, f) ==
    LET p == b.pages_[f].page_id_
    IN  IF GatewayFails(b, f) THEN b
        ELSE [ b EXCEPT !.disk = [ q \in DOMAIN @ |->
                                      IF q = p THEN b.pages_[f].data_ ELSE @[q] ] ]

\* Schedule({false, data of f, page id of f}); future.get(): the gateway's read,
\* which leaves the frame's bytes as they were when it fails; the value of the
\* future is not looked at
DiskRead(b, f) ==
    LET p == b.pages_[f].page_id_
    IN  IF GatewayFails(b, f) THEN b
        ELSE [ b EXCEPT !.pages_[f].data_ =
                            IF p \in DOMAIN b.disk THEN b.disk[p] ELSE ZeroData ]

WriteReq(b, f) == [ is_write_ |-> TRUE, page_id_ |-> b.pages_[f].page_id_ ]

ReadReq(b, f) == [ is_write_ |-> FALSE, page_id_ |-> b.pages_[f].page_id_ ]

\* the requests among io that the gateway fails
FailedReqs(b, io) == SelectSeq(io, LAMBDA q : b.gateway_fails /\ q.page_id_ \in BadPages)

\* a variant of NewFrameVictim that writes no victim back
NewFrameVictimNoWriteBack(b) ==
    Bind(Evict(b.replacer_, b.now + 1), LAMBDA ev :
        IF ~ev.ok
        THEN [ b |-> b, ok |-> FALSE, frame_id |-> INVALID_PAGE_ID, io |-> << >>,
               from |-> "none" ]
        ELSE [ b |-> [ b EXCEPT !.replacer_ = ev.r,
                                !.page_table_ =
                                    PageTableErase(@, b.pages_[ev.frame_id].page_id_) ],
               ok |-> TRUE, frame_id |-> ev.frame_id, io |-> << >>, from |-> "replacer" ])

\* the replacer's victim: Evict, the write-back of a dirty victim, the erase
\* of its page table entry
NewFrameVictim(b) ==
    Bind(Evict(b.replacer_, b.now + 1), LAMBDA ev :
        IF ~ev.ok
        THEN [ b |-> b, ok |-> FALSE, frame_id |-> INVALID_PAGE_ID, io |-> << >>,
               from |-> "none" ]
        ELSE LET f  == ev.frame_id
                 b1 == [ b EXCEPT !.replacer_ = ev.r ]
                 dirty == b.pages_[f].is_dirty_
                 b2 == IF dirty THEN DiskWrite(b1, f) ELSE b1
                 b3 == [ b2 EXCEPT !.page_table_ = PageTableErase(@, b.pages_[f].page_id_) ]
             IN  [ b |-> b3, ok |-> TRUE, frame_id |-> f,
                   io |-> IF dirty THEN << WriteReq(b, f) >> ELSE << >>,
                   from |-> "replacer" ])

\* the frame NewFrame takes: the head of the free list, or the replacer's victim
NewFrameTake(b) ==
    IF b.free_list_ # << >>
    THEN [ b |-> [ b EXCEPT !.free_list_ = Tail(@) ], ok |-> TRUE,
           frame_id |-> Head(b.free_list_), io |-> << >>, from |-> "free_list" ]
    ELSE NewFrameVictim(b)

\* NewFrame(page_id, &new_frame_id)
NewFrame(b, page_id) ==
    Bind(NewFrameTake(b), LAMBDA got :
        IF ~got.ok THEN got
        ELSE LET f  == got.frame_id
                 b1 == ResetFrame(got.b, f)
                 b2 == [ b1 EXCEPT !.pages_[f].page_id_ = page_id ]
             IN  [ got EXCEPT !.b = BpmRecordAccess(b2, f) ])

AllocatePageAgain(b) == [ b |-> b, page_id |-> b.next_page_id_ ]

\* AllocatePage: next_page_id_++
AllocatePage(b) == [ b |-> [ b EXCEPT !.next_page_id_ = @ + 1 ], page_id |-> b.next_page_id_ ]

NoResult(b) ==
    [ b |-> b, ret |-> FALSE, threw |-> FALSE, io |-> << >>,
      page_id |-> INVALID_PAGE_ID, frame_id |-> INVALID_PAGE_ID, from |-> "none" ]

\* NewPage after NewFrame has succeeded with got, for the page id page_id:
\* the pin, RecordAccess, SetEvictable(false), the page table entry
NewPagePin(got, page_id) ==
    LET f == got.frame_id
    IN  Bind(BpmRecordAccess([ got.b EXCEPT !.pages_[f].pin_count_ = @ + 1 ], f), LAMBDA b2 :
        Bind(SetEvictable(b2.replacer_, f, FALSE), LAMBDA se :
            LET b3 == [ b2 EXCEPT !.replacer_ = se.r ]
                b4 == [ b3 EXCEPT !.page_table_ = PageTablePut(@, page_id, f) ]
                res == [ NoResult(b3) EXCEPT !.io = got.io, !.page_id = page_id,
                                             !.frame_id = f, !.from = got.from ]
            IN  IF se.threw THEN [ res EXCEPT !.threw = TRUE ]
                ELSE [ res EXCEPT !.b = b4, !.ret = TRUE ]))

\* NewPage(&page_id)
NewPage(b) ==
    Bind(AllocatePage(b), LAMBDA al :
        Bind(NewFrame(al.b, al.page_id), LAMBDA got :
            IF ~got.ok THEN [ NoResult(al.b) EXCEPT !.page_id = al.page_id ]
            ELSE NewPagePin(got, al.page_id)))

\* the miss branch of FetchPage: NewFrame, SetEvictable(false), the read, the
\* page table entry
FetchMiss(b, page_id) ==
    Bind(NewFrame(b, page_id), LAMBDA got :
        IF ~got.ok THEN [ NoResult(b) EXCEPT !.page_id = page_id ]
        ELSE Bind(SetEvictable(got.b.replacer_, got.frame_id, FALSE), LAMBDA se :
            LET f  == got.frame_id
                b1 == [ got.b EXCEPT !.replacer_ = se.r ]
                b2 == DiskRead(b1, f)
                b3 == [ b2 EXCEPT !.page_table_ = PageTablePut(@, page_id, f) ]
                res == [ NoResult(b1) EXCEPT !.io = got.io, !.page_id = page_id,
                                             !.frame_id = f, !.from = got.from ]
            IN  IF se.threw THEN [ res EXCEPT !.threw = TRUE ]
                ELSE [ res EXCEPT !.b = b3, !.ret = TRUE,
                                  !.io = got.io \o << ReadReq(b1, f) >> ]))

\* the frame FetchPage pins: the page's frame, or the frame of the miss branch
FetchFind(b, page_id) ==
    IF Resident(b, page_id)
    THEN [ NoResult(b) EXCEPT !.ret = TRUE, !.page_id = page_id,
                              !.frame_id = b.page_table_[page_id],
                              !.from = "page_table" ]
    ELSE FetchMiss(b, page_id)

\* a variant of FetchPage that returns the frame without pinning it
FetchPageNoPin(b, page_id) == FetchFind(b, page_id)

\* FetchPage(page_id)
FetchPage(b, page_id) ==
    Bind(FetchFind(b, page_id), LAMBDA found :
        IF ~found.ret THEN found
        ELSE LET f  == found.frame_id
                 b1 == [ found.b EXCEPT !.pages_[f].pin_count_ = @ + 1 ]
             IN  [ found EXCEPT !.b = BpmRecordAccess(b1, f) ])

\* a variant of UnpinPageMark that leaves the replacer alone
UnpinPageMarkNever(b1, page_id, f, is_dirty) ==
    [ NoResult([ b1 EXCEPT !.pages_[f].is_dirty_ = is_dirty ])
          EXCEPT !.page_id = page_id, !.frame_id = f, !.ret = TRUE ]

\* UnpinPage after the pin count of frame f has been decremented, in b1
UnpinPageMark(b1, page_id, f, is_dirty) ==
    Bind(IF b1.pages_[f].pin_count_ = 0
         THEN SetEvictable(b1.replacer_, f, TRUE)
         ELSE [ r |-> b1.replacer_, threw |-> FALSE ], LAMBDA se :
        LET b2 == [ b1 EXCEPT !.replacer_ = se.r ]
            b3 == [ b2 EXCEPT !.pages_[f].is_dirty_ = is_dirty ]
            res == [ NoResult(b2) EXCEPT !.page_id = page_id, !.frame_id = f ]
        IN  IF se.threw THEN [ res EXCEPT !.threw = TRUE ]
            ELSE [ res EXCEPT !.b = b3, !.ret = TRUE ])

\* UnpinPage(page_id, is_dirty)
UnpinPage(b, page_id, is_dirty) ==
    IF ~Resident(b, page_id) THEN [ NoResult(b) EXCEPT !.page_id = page_id ]
    ELSE LET f == b.page_table_[page_id]
         IN  IF b.pages_[f].pin_count_ <= 0
             THEN [ NoResult(b) EXCEPT !.page_id = page_id, !.frame_id = f ]
             ELSE UnpinPageMark([ b EXCEPT !.pages_[f].pin_count_ = @ - 1 ],
                                page_id, f, is_dirty)

\* a variant of FlushPage that leaves the dirty flag as it is
FlushPageKeepsDirty(b, page_id) ==
    IF page_id = INVALID_PAGE_ID \/ ~Resident(b, page_id)
    THEN [ NoResult(b) EXCEPT !.page_id = page_id ]
    ELSE [ NoResult(DiskWrite(b, b.page_table_[page_id]))
               EXCEPT !.ret = TRUE, !.page_id = page_id,
                      !.frame_id = b.page_table_[page_id],
                      !.io = << WriteReq(b, b.page_table_[page_id]) >> ]

\* FlushPage(page_id)
FlushPage(b, page_id) ==
    IF page_id = INVALID_PAGE_ID THEN [ NoResult(b) EXCEPT !.page_id = page_id ]
    ELSE IF ~Resident(b, page_id) THEN [ NoResult(b) EXCEPT !.page_id = page_id ]
    ELSE LET f  == b.page_table_[page_id]
             b1 == DiskWrite(b, f)
             b2 == [ b1 EXCEPT !.pages_[f].is_dirty_ = FALSE ]
         IN  [ NoResult(b2) EXCEPT !.ret = TRUE, !.page_id = page_id, !.frame_id = f,
                                   !.io = << WriteReq(b, f) >> ]

\* a variant of DeletePage that writes the page to disk first
DeletePageFlushes(b, page_id) ==
    IF ~Resident(b, page_id) \/ b.pages_[b.page_table_[page_id]].pin_count_ > 0
    THEN [ NoResult(b) EXCEPT !.ret = ~Resident(b, page_id), !.page_id = page_id ]
    ELSE LET f == b.page_table_[page_id]
             b1 == DiskWrite(b, f)
         IN  [ NoResult([ b1 EXCEPT !.page_table_ = PageTableErase(@, page_id),
                                    !.replacer_ = EraseNode(@, f),
                                    !.free_list_ = Append(@, f),
                                    !.pages_[f] = EmptyPage ])
                   EXCEPT !.ret = TRUE, !.page_id = page_id, !.frame_id = f ]

\* a variant of DeletePage that does not look at the pin count
DeletePageAnyPin(b, page_id) ==
    IF ~Resident(b, page_id) THEN [ NoResult(b) EXCEPT !.ret = TRUE, !.page_id = page_id ]
    ELSE LET f == b.page_table_[page_id]
         IN  Bind(Remove(b.replacer_, f), LAMBDA rm :
                 LET b2 == [ b EXCEPT !.page_table_ = PageTableErase(@, page_id),
                                      !.replacer_ = rm.r ]
                     b4 == ResetFrame([ b2 EXCEPT !.free_list_ = Append(@, f) ], f)
                     res == [ NoResult(b2) EXCEPT !.page_id = page_id, !.frame_id = f ]
                 IN  IF rm.threw THEN [ res EXCEPT !.threw = TRUE ]
                     ELSE [ res EXCEPT !.b = b4, !.ret = TRUE ])

\* DeletePage(page_id)
DeletePage(b, page_id) ==
    IF ~Resident(b, page_id) THEN [ NoResult(b) EXCEPT !.ret = TRUE, !.page_id = page_id ]
    ELSE LET f == b.page_table_[page_id]
         IN  IF b.pages_[f].pin_count_ > 0
             THEN [ NoResult(b) EXCEPT !.page_id = page_id, !.frame_id = f ]
             ELSE Bind(Remove(b.replacer_, f), LAMBDA rm :
                 LET b1 == [ b EXCEPT !.page_table_ = PageTableErase(@, page_id) ]
                     b2 == [ b1 EXCEPT !.replacer_ = rm.r ]
                     b3 == [ b2 EXCEPT !.free_list_ = Append(@, f) ]
                     b4 == ResetFrame(b3, f)
                     res == [ NoResult(b2) EXCEPT !.page_id = page_id, !.frame_id = f ]
                 IN  IF rm.threw THEN [ res EXCEPT !.threw = TRUE ]
                     ELSE [ res EXCEPT !.b = b4, !.ret = TRUE ])

\* a client that holds a pin on page_id writes into the page's bytes
ClientWrite(b, page_id) ==
    [ b EXCEPT !.pages_[b.page_table_[page_id]].data_ = ClientData ]

(***************************************************************************)
(* DiskScheduler (src/storage/disk/disk_scheduler.cpp).                    *)
(* Threads: the workers the constructor starts, the producers that call    *)
(* Schedule, and the thread that runs the destructor.  A step is one       *)
(* statement that another thread can observe.                              *)
(***************************************************************************)
Workers == 1 .. SchedWorkers

Producers == 1 .. SchedProducers

Requests == 1 .. SchedRequests

NoThread == 0

NoRequest == 0

\* std::nullopt in the queue
Nullopt == -1

\* the DiskRequest with id r: its direction and its page id
ReqIsWrite(r) == r % 2 = 1

ReqPageId(r) == r - 1

\* the producer that schedules request r
ProducerOf(r) == ((r - 1) % SchedProducers) + 1

\* the requests of producer p from request r on
RequestsFrom(p, r) == { q \in Requests : ProducerOf(q) = p /\ q >= r }

NextRequest(p, r) ==
    IF RequestsFrom(p, r) = {} THEN NoRequest
    ELSE CHOOSE q \in RequestsFrom(p, r) : \A x \in RequestsFrom(p, r) : q <= x

\* Channel<T>::Put: append to the queue
ChannelPut(q, x) == Append(q, x)

\* Channel<T>::Get blocks while the queue is empty, then takes its head
ChannelCanGet(q) == q # << >>

ChannelGet(q) == [ element |-> Head(q), q |-> Tail(q) ]

\* cv_.notify_one(): one of the threads waiting on cv_, if any, is woken
NotifyOne(pc, w) == [ pc EXCEPT ![w] = "woken" ]

\* cv_.notify_all(): every thread waiting on cv_ is woken
NotifyAll(pc) == [ w \in DOMAIN pc |-> IF pc[w] = "waiting" THEN "woken" ELSE pc[w] ]

WorkerGatewayCallAlwaysWrite(w, r) ==
    [ is_write |-> TRUE, page_id |-> ReqPageId(r), req |-> r, worker |-> w ]

\* the gateway call a worker makes for request r: WritePage when is_write_,
\* ReadPage otherwise, with the request's page id
WorkerGatewayCall(w, r) ==
    [ is_write |-> ReqIsWrite(r), page_id |-> ReqPageId(r), req |-> r, worker |-> w ]

\* callback_.set_value(true)
SetValue(res, r) == [ res EXCEPT ![r] = @ + 1 ]

\* the value callback_.set_value is called with
PromiseSetValue(pr, r) == [ pr EXCEPT ![r] = Append(@, TRUE) ]

\* how a call of WritePage or ReadPage can end: it does its work ("done"), or it
\* fails and signals that out of band, either in a state the caller would have
\* to ask for ("failed": the call returns) or as an exception ("threw")
GatewayOutcomes == { "done", "failed", "threw" }

GatewayOutcomesOf(page_id) == IF page_id \in BadPages THEN GatewayOutcomes ELSE { "done" }

\* nothing in StartWorkerThread catches: an exception that leaves the thread's
\* function ends the process (std::terminate)
WorkerAfterGateway(o) == IF o = "threw" THEN "terminated" ELSE "resolve"

(***************************************************************************)
(* Trie (src/primer/trie.cpp).                                             *)
(* Nodes live in a heap, trie_nodes, and are named by their address, so    *)
(* that two tries can share a node and a write through a pointer is a      *)
(* write to the heap cell it points to.  Every operator takes the heap h   *)
(* and returns the heap after it runs.  Nodes are never freed in the model *)
(* (a shared_ptr frees a node only when nothing refers to it any more).    *)
(***************************************************************************)
\* the characters and the keys of the model
TrieChars == { "a", "b" }

TrieKeys == { << >>, <<"a">>, <<"b">>, <<"a", "b">> }

\* the values put; T is one type, so the dynamic_cast in Get succeeds on every
\* value node
TrieValues == { 1, 2 }

\* nullptr as a root_ or a child pointer
NullNode == 0

\* nullptr as the result of Get
NullValue == 0

\* std::map<char, std::shared_ptr<const TrieNode>>(): no children
EmptyChildren == [ c \in {} |-> NullNode ]

\* TrieNode(children)
TrieNode(children) ==
    [ children_ |-> children, is_value_node_ |-> FALSE, value_ |-> NullValue ]

\* TrieNodeWithValue<T>(children, value)
TrieNodeWithValue(children, value) ==
    [ children_ |-> children, is_value_node_ |-> TRUE, value_ |-> value ]

\* std::make_shared / a unique_ptr from Clone: a new node at a new address
MakeShared(h, node) == [ h |-> Append(h, node), id |-> Len(h) + 1 ]

\* TrieNode::Clone and TrieNodeWithValue::Clone (primer/trie.h): a new node of
\* the same kind with the same children and the same value
Clone(h, id) == MakeShared(h, h[id])

\* children[c] = child on a map
MapPut(children, c, child) ==
    [ d \in (DOMAIN children) \cup {c} |-> IF d = c THEN child ELSE children[d] ]

\* children.erase(c) on a map
MapErase(children, c) == [ d \in (DOMAIN children) \ {c} |-> children[d] ]

\* node->children_[c] = child: a write into the node at address id
SetChild(h, id, c, child) ==
    [ h EXCEPT ![id].children_ = MapPut(h[id].children_, c, child) ]

\* node->children_.erase(c)
EraseChild(h, id, c) ==
    [ h EXCEPT ![id].children_ = MapErase(h[id].children_, c) ]

\* the loop of Get over a non-empty key, at its i-th character
RECURSIVE GetWalk(_, _, _, _)
GetWalk(h, cur_node, key, i) ==
    LET children == h[cur_node].children_
    IN  IF DOMAIN children = {} THEN NullValue
        ELSE IF key[i] \notin DOMAIN children THEN NullValue
        ELSE IF i = Len(key)
             THEN IF h[children[key[i]]].is_value_node_
                  THEN h[children[key[i]]].value_
                  ELSE NullValue
             ELSE GetWalk(h, children[key[i]], key, i + 1)

\* Trie::Get on the trie whose root_ is root
Trie_Get(h, root, key) ==
    IF key = << >>
    THEN IF root = NullNode THEN NullValue
         ELSE IF h[root].is_value_node_ THEN h[root].value_
         ELSE NullValue
    ELSE IF root = NullNode \/ DOMAIN h[root].children_ = {} THEN NullValue
    ELSE GetWalk(h, root, key, 1)

\* step 1 of Put: from the last character of the key back to the first, a
\* chain of new nodes that ends in the value node; tmp_root is the node built
\* for the characters after the i-th
RECURSIVE PutChain(_, _, _, _, _)
PutChain(h, key, value, i, tmp_root) ==
    IF i = 0 THEN [ h |-> h, id |-> tmp_root ]
    ELSE LET new_child_ptr ==
                 IF i = Len(key)
                 THEN MakeShared(h, TrieNodeWithValue(EmptyChildren, value))
                 ELSE MakeShared(h, TrieNode(h[tmp_root].children_))
             m == MapPut(EmptyChildren, key[i], new_child_ptr.id)
             next_root == MakeShared(new_child_ptr.h, TrieNode(m))
         IN  PutChain(next_root.h, key, value, i - 1, next_root.id)

\* step 2 of Put: the loop over the key along the cloned path, at its i-th
\* character; the result is the heap after the loop
RECURSIVE PutWalk(_, _, _, _, _, _)
PutWalk(h, key, value, i, cur_node, tmp_root) ==
    LET children == h[cur_node].children_
        c == key[i]
    IN  IF DOMAIN children = {} \/ c \notin DOMAIN children
        THEN SetChild(h, cur_node, c, h[tmp_root].children_[c])
        ELSE LET new_child == Clone(h, children[c])
             IN  IF i = Len(key)
                 THEN LET leaf_ptr ==
                              MakeShared(new_child.h,
                                  TrieNodeWithValue(new_child.h[new_child.id].children_, value))
                      IN  SetChild(leaf_ptr.h, cur_node, c, leaf_ptr.id)
                 ELSE PutWalk(SetChild(new_child.h, cur_node, c, new_child.id),
                              key, value, i + 1, new_child.id,
                              h[tmp_root].children_[c])

\* a variant of PutNewRoot that walks the receiver's own root
PutNewRootShared(h, root) == [ h |-> h, id |-> root ]

\* the root Put writes along: a clone of the receiver's root
PutNewRoot(h, root) == Clone(h, root)

\* Trie::Put on the trie whose root_ is root.  outcome "null_deref": the call
\* dereferenced a null root_
Trie_Put(h, root, key, value) ==
    IF key = << >>
    THEN IF root = NullNode
         THEN [ h |-> h, root |-> NullNode, outcome |-> "null_deref" ]
         ELSE LET old_root == Clone(h, root)
                  result_ptr ==
                      MakeShared(old_root.h,
                          TrieNodeWithValue(old_root.h[old_root.id].children_, value))
              IN  [ h |-> result_ptr.h, root |-> result_ptr.id, outcome |-> "ok" ]
    ELSE LET chain == PutChain(h, key, value, Len(key), NullNode)
         IN  IF root = NullNode
             THEN [ h |-> chain.h, root |-> chain.id, outcome |-> "ok" ]
             ELSE LET new_root == PutNewRoot(chain.h, root)
                  IN  [ h |-> PutWalk(new_root.h, key, value, 1, new_root.id, chain.id),
                        root |-> new_root.id, outcome |-> "ok" ]

\* the loop of Remove along the cloned path, at the i-th character of the key;
\* the result is the heap after the loop and the root_ of the trie returned
\* (this_root when the loop breaks and Remove returns *this)
RECURSIVE RemoveWalk(_, _, _, _, _, _, _, _)
RemoveWalk(h, key, i, cur_node, tmp_leaf, is_empty_trie, new_root, this_root) ==
    LET children == h[cur_node].children_
        c == key[i]
        size == Cardinality(DOMAIN children)
        leaf1 == IF size = 1 /\ h[cur_node].is_value_node_ THEN cur_node ELSE tmp_leaf
        leaf == IF size # 1 THEN new_root ELSE leaf1
        empty == IF size # 1 \/ h[cur_node].is_value_node_ THEN FALSE ELSE is_empty_trie
    IN  IF DOMAIN children = {} \/ c \notin DOMAIN children
        THEN [ h |-> h, root |-> this_root ]
        ELSE IF i = Len(key)
        THEN LET hit_node == Clone(h, children[c])
             IN  IF DOMAIN hit_node.h[hit_node.id].children_ = {}
                 THEN LET erased == EraseChild(hit_node.h, cur_node, c)
                          cut == IF leaf # new_root
                                 THEN [ erased EXCEPT ![leaf].children_ = EmptyChildren ]
                                 ELSE erased
                      IN  [ h |-> cut, root |-> IF empty THEN NullNode ELSE new_root ]
                 ELSE LET plain == MakeShared(hit_node.h,
                                       TrieNode(hit_node.h[hit_node.id].children_))
                      IN  [ h |-> SetChild(plain.h, cur_node, c, plain.id),
                            root |-> new_root ]
        ELSE LET new_child == Clone(h, children[c])
             IN  RemoveWalk(SetChild(new_child.h, cur_node, c, new_child.id),
                            key, i + 1, new_child.id, leaf, empty, new_root, this_root)

\* Trie::Remove on the trie whose root_ is root
Trie_Remove(h, root, key) ==
    IF root = NullNode
    THEN [ h |-> h, root |-> NullNode, outcome |-> "null_deref" ]
    ELSE LET old_root == Clone(h, root)
         IN  IF key = << >>
             THEN LET result == MakeShared(old_root.h,
                                    TrieNode(old_root.h[old_root.id].children_))
                  IN  [ h |-> result.h, root |-> result.id, outcome |-> "ok" ]
             ELSE LET new_root == Clone(old_root.h, root)
                      walk == RemoveWalk(new_root.h, key, 1, new_root.id, new_root.id,
                                         TRUE, new_root.id, root)
                  IN  [ h |-> walk.h, root |-> walk.root, outcome |-> "ok" ]

\* What a call through a null root_ (this->root_->Clone()) does to the
\* process: undefined behaviour.  Clone is virtual, so the call loads the
\* vtable pointer from address 0: the process is killed by SIGSEGV, or, in the
\* project's sanitizer builds, aborted by the sanitizer's report.
NullDerefOutcomes == { "sigsegv", "sanitizer_abort" }

\* trie_last before any call
NoTrieCall == [ op |-> "none", t |-> 0, key |-> << >>, value |-> NullValue, outcome |-> "ok" ]

(***************************************************************************)
(* Initial values of each subsystem's variables.                           *)
(***************************************************************************)
\* bpm_last: the call, the page id it was given (NewPage: the id it allocated)
\* and what it returned (TRUE: a page or true, FALSE: nullptr or false)
NoBpmCall ==
    [ op |-> "none", page_id |-> INVALID_PAGE_ID, ret |-> FALSE, threw |-> FALSE,
      frame_id |-> INVALID_PAGE_ID, from |-> "none", io |-> << >>, failed |-> << >> ]

InitLRUVars ==
    /\ replacer = NewReplacer(LruCapacity, ReplacerK)
    /\ clock = 0
    /\ lru_last = NoCall

InitBPMVars ==
    /\ bpm = NewBPM(PoolSize, ReplacerK)
    /\ bpm_last = NoBpmCall
    /\ bpm_ids = {}

\* the constructor has started the worker threads; none has run yet
InitSchedVars ==
    /\ request_queue_ = << >>
    /\ m_holder = NoThread
    /\ wpc = [ w \in Workers |-> "start" ]
    /\ wreq = [ w \in Workers |-> NoRequest ]
    /\ pnext = [ p \in Producers |-> NextRequest(p, 1) ]
    /\ ppc = [ p \in Producers |-> IF NextRequest(p, 1) = NoRequest THEN "done" ELSE "put" ]
    /\ dpc = "idle"
    /\ dput = 0
    /\ calls = << >>
    /\ dequeued = [ r \in Requests |-> 0 ]
    /\ resolved = [ r \in Requests |-> 0 ]
    /\ gateway = [ r \in Requests |-> "none" ]
    /\ promise = [ r \in Requests |-> << >> ]

\* one default-constructed Trie (root_ is nullptr), no node allocated
InitTrieVars ==
    /\ trie_nodes = << >>
    /\ tries = << NullNode >>
    /\ trie_last = NoTrieCall
    /\ trie_got = NullValue

\* a client thread that is in no pool call
IdleThread ==
    [ pc |-> "idle", op |-> "none", page_id |-> INVALID_PAGE_ID, is_dirty |-> FALSE,
      in_loop |-> FALSE, it |-> "none", left |-> {} ]

\* the pool is constructed, its latch_ is free and no client thread has called it
InitThrVars ==
    /\ latch_ = NoThread
    /\ threads = [ t \in 1 .. PoolThreads |-> IdleThread ]
    /\ ncalls = 0

Init ==
    /\ InitLRUVars
    /\ InitBPMVars
    /\ InitSchedVars
    /\ InitTrieVars
    /\ InitThrVars

(***************************************************************************)
(* The replacer driven on its own: any sequence of RecordAccess,           *)
(* SetEvictable, Remove, Evict and Size on frame ids 0 .. LruFrames - 1.   *)
(***************************************************************************)
\* the caller has taken note of how its last call ended: lru_last describes a
\* call only in the state the call ends in
LruIdle == lru_last = NoCall

LruRecordAccess(f) ==
    /\ LruIdle
    /\ clock < MaxClock
    /\ clock' = clock + 1
    /\ replacer' = RecordAccess(replacer, f, clock + 1)
    /\ lru_last' = [ NoCall EXCEPT !.op = "RecordAccess", !.frame = f ]
    /\ UNCHANGED notLru

\* the guard caps replacer_size_, which a throwing EnableEvictable leaves
\* raised: no further call that raises it once it is above max_size_
LruSetEvictable(f, b) ==
    LET c == SetEvictable(replacer, f, b)
    IN  /\ LruIdle
        /\ c.r.replacer_size_ > replacer.replacer_size_ =>
               replacer.replacer_size_ <= LruCapacity
        /\ replacer' = c.r
        /\ lru_last' = [ NoCall EXCEPT !.op = "SetEvictable", !.frame = f,
                                       !.flag = b, !.threw = c.threw ]
        /\ UNCHANGED <<clock, notLru>>

LruRemove(f) ==
    LET c == Remove(replacer, f)
    IN  /\ LruIdle
        /\ replacer' = c.r
        /\ lru_last' = [ NoCall EXCEPT !.op = "Remove", !.frame = f, !.threw = c.threw ]
        /\ UNCHANGED <<clock, notLru>>

LruEvict ==
    LET c == Evict(replacer, clock + 1)
    IN  /\ LruIdle
        /\ replacer' = c.r
        /\ lru_last' = [ NoCall EXCEPT !.op = "Evict", !.frame = c.frame_id, !.ok = c.ok ]
        /\ UNCHANGED <<clock, notLru>>

LruSize ==
    /\ LruIdle
    /\ lru_last' = [ NoCall EXCEPT !.op = "Size", !.size = Size(replacer) ]
    /\ UNCHANGED <<replacer, clock, notLru>>

\* the history variable is cleared before the next call; the replacer is
\* untouched
LruReturn ==
    /\ ~LruIdle
    /\ lru_last' = NoCall
    /\ UNCHANGED <<replacer, clock, notLru>>

NextLRU ==
    \/ \E f \in LruFrameIds : LruRecordAccess(f)
    \/ \E f \in LruFrameIds, b \in BOOLEAN : LruSetEvictable(f, b)
    \/ \E f \in LruFrameIds : LruRemove(f)
    \/ LruEvict
    \/ LruSize
    \/ LruReturn

SpecLRU == Init /\ [][NextLRU]_vars

(***************************************************************************)
(* The buffer pool driven by its clients: any sequence of NewPage,         *)
(* FetchPage, UnpinPage, FlushPage and DeletePage, and of writes by a      *)
(* client into a page it has pinned.                                       *)
(***************************************************************************)
BpmStep(op, call) ==
    \E c \in {call} :
        /\ bpm' = [ c.b EXCEPT !.gateway_fails = FALSE ]
        /\ bpm_last' = [ op |-> op, page_id |-> c.page_id, ret |-> c.ret,
                          threw |-> c.threw, frame_id |-> c.frame_id,
                          from |-> c.from, io |-> c.io,
                          failed |-> FailedReqs(c.b, c.io) ]
        /\ bpm_ids' = IF op = "NewPage" /\ c.ret THEN bpm_ids \cup {c.page_id} ELSE bpm_ids
        /\ UNCHANGED notBpm

\* the pool as a call finds it, with the gateway's answer to the requests the
\* call will schedule for bad pages: x says that it fails them
GatewayAnswers(b, x) == [ b EXCEPT !.gateway_fails = x ]

\* the answers that make a difference to a call for page p: a call schedules
\* requests for p and for the pages that are resident only
AnswersFor(b, p) ==
    IF \E q \in BadPages : q = p \/ Resident(b, q) THEN BOOLEAN ELSE { FALSE }

\* the clock is read at most twice by one call
ClockLeft == bpm.now + 2 <= BpmMaxClock

\* the client has taken note of what its last call returned: bpm_last describes
\* a call only in the state the call ends in
BpmIdle == bpm_last = NoBpmCall

BpmNewPage ==
    /\ BpmIdle
    /\ bpm.next_page_id_ < MaxPages
    /\ ClockLeft
    /\ \E x \in AnswersFor(bpm, bpm.next_page_id_) :
          BpmStep("NewPage", NewPage(GatewayAnswers(bpm, x)))

BpmFetchPage(p) ==
    /\ BpmIdle
    /\ ClockLeft
    /\ Resident(bpm, p) => bpm.pages_[bpm.page_table_[p]].pin_count_ < MaxPin
    /\ \E x \in AnswersFor(bpm, p) :
          BpmStep("FetchPage", FetchPage(GatewayAnswers(bpm, x), p))

BpmUnpinPage(p, d) == BpmIdle /\ BpmStep("UnpinPage", UnpinPage(bpm, p, d))

BpmFlushPage(p) ==
    /\ BpmIdle
    /\ \E x \in AnswersFor(bpm, p) :
          BpmStep("FlushPage", FlushPage(GatewayAnswers(bpm, x), p))

BpmDeletePage(p) == BpmIdle /\ BpmStep("DeletePage", DeletePage(bpm, p))

BpmClientWrite(p) ==
    /\ BpmIdle
    /\ Resident(bpm, p)
    /\ bpm.pages_[bpm.page_table_[p]].pin_count_ > 0
    /\ bpm' = ClientWrite(bpm, p)
    /\ bpm_last' = [ NoBpmCall EXCEPT !.op = "ClientWrite", !.page_id = p ]
    /\ UNCHANGED <<bpm_ids, notBpm>>

\* the history variable is cleared before the next call; the pool is untouched
BpmReturn ==
    /\ ~BpmIdle
    /\ bpm_last' = NoBpmCall
    /\ UNCHANGED <<bpm, bpm_ids, notBpm>>

\* the page ids clients hold: those AllocatePage has handed out
HandedOut == 0 .. (bpm.next_page_id_ - 1)

NextBPM ==
    \/ BpmNewPage
    \/ \E p \in HandedOut : BpmFetchPage(p)
    \/ \E p \in HandedOut, d \in BOOLEAN : BpmUnpinPage(p, d)
    \/ \E p \in HandedOut \cup {INVALID_PAGE_ID} : BpmFlushPage(p)
    \/ \E p \in HandedOut : BpmDeletePage(p)
    \/ \E p \in HandedOut : BpmClientWrite(p)
    \/ BpmReturn

SpecBPM == Init /\ [][NextBPM]_vars

(***************************************************************************)
(* The buffer pool called by several client threads.  A public call other  *)
(* than FlushAllPages opens with std::scoped_lock lck(latch_): the thread  *)
(* waits for latch_, runs the whole call holding it and releases it when   *)
(* the call returns.  FlushAllPages takes no lock of its own: its range-for*)
(* reads page_table_ (begin(), ++, the comparison with end(), p.first)     *)
(* between the FlushPage calls it makes, and only those calls lock latch_. *)
(***************************************************************************)
PoolThreadIds == 1 .. PoolThreads

\* the public calls a client thread makes with the page ids it holds
PoolCalls ==
    { [ op |-> "NewPage", page_id |-> INVALID_PAGE_ID, is_dirty |-> FALSE ] }
    \cup { [ op |-> o, page_id |-> p, is_dirty |-> FALSE ] :
              o \in { "FetchPage", "FlushPage", "DeletePage" }, p \in HandedOut }
    \cup { [ op |-> "UnpinPage", page_id |-> p, is_dirty |-> d ] :
              p \in HandedOut, d \in BOOLEAN }

\* what the call a thread is in does to pool b
ThreadCall(b, c) ==
    CASE c.op = "NewPage"    -> NewPage(b)
      [] c.op = "FetchPage"  -> FetchPage(b, c.page_id)
      [] c.op = "UnpinPage"  -> UnpinPage(b, c.page_id, c.is_dirty)
      [] c.op = "FlushPage"  -> FlushPage(b, c.page_id)
      [] c.op = "DeletePage" -> DeletePage(b, c.page_id)

\* thread t holds latch_ inside a call that inserts into or erases from page_table_
WritesPageTable(t) ==
    /\ threads[t].pc = "in"
    /\ ThreadCall(bpm, threads[t]).b.page_table_ # bpm.page_table_

\* thread t is at one of the accesses to page_table_ that the range-for of
\* FlushAllPages makes
ReadsPageTable(t) == threads[t].pc = "iter"

\* an access through an invalid iterator has ended the process
PoolCrashed == \E t \in PoolThreadIds : threads[t].pc = "crashed"

\* the call's arguments stay inside the model's bounds
CallInBounds(c) ==
    /\ c.op = "NewPage" => bpm.next_page_id_ < MaxPages
    /\ c.op \in { "NewPage", "FetchPage" } => ClockLeft
    /\ (c.op = "FetchPage" /\ Resident(bpm, c.page_id))
          => bpm.pages_[bpm.page_table_[c.page_id]].pin_count_ < MaxPin

\* a thread calls NewPage, FetchPage, UnpinPage, FlushPage or DeletePage and
\* reaches the scoped_lock that opens it
ThrCall(t, c) ==
    /\ ~PoolCrashed
    /\ threads[t].pc = "idle"
    /\ ncalls < MaxPoolCalls
    /\ threads' = [ threads EXCEPT ![t] =
                      [ IdleThread EXCEPT !.pc = "lock", !.op = c.op,
                                          !.page_id = c.page_id, !.is_dirty = c.is_dirty ] ]
    /\ ncalls' = ncalls + 1
    /\ UNCHANGED <<bpm, latch_, notThr>>

\* a thread calls FlushAllPages and reaches page_table_.begin(): no lock is taken
ThrFlushAllPages(t) ==
    /\ ~PoolCrashed
    /\ threads[t].pc = "idle"
    /\ ncalls < MaxPoolCalls
    /\ threads' = [ threads EXCEPT ![t] =
                      [ IdleThread EXCEPT !.pc = "iter", !.op = "FlushAllPages",
                                          !.in_loop = TRUE, !.it = "begin" ] ]
    /\ ncalls' = ncalls + 1
    /\ UNCHANGED <<bpm, latch_, notThr>>

\* the next page the loop calls FlushPage for
ThrFlushNext(me, p, it, left) ==
    [ me EXCEPT !.pc = "lock", !.op = "FlushPage", !.page_id = p, !.it = it, !.left = left ]

\* one step of the range-for: the iterator is taken from begin() or advanced,
\* compared with end() and dereferenced, without latch_.  std::unordered_map
\* fixes no order, so the next page is any of those not yet visited.  The
\* iterator is invalid when page_table_ was or is being modified by another
\* thread since the loop began: the step then has undefined behaviour, which
\* the build turns into the end of the loop, a FlushPage of any id, or a crash.
ThrIterate(t) ==
    /\ ~PoolCrashed
    /\ ReadsPageTable(t)
    /\ \E me \in { threads[t] } :
       \E it \in { IF \E u \in PoolThreadIds \ {t} : WritesPageTable(u)
                      THEN "invalid" ELSE me.it } :
       \E avail \in { IF me.it = "begin" THEN DOMAIN bpm.page_table_ ELSE me.left } :
          \/ /\ it # "invalid"
             /\ avail = {}
             /\ threads' = [ threads EXCEPT ![t] = IdleThread ]
          \/ /\ it # "invalid"
             /\ \E p \in avail :
                   threads' = [ threads EXCEPT ![t] = ThrFlushNext(me, p, "valid", avail \ {p}) ]
          \/ /\ it = "invalid"
             /\ threads' = [ threads EXCEPT ![t] = IdleThread ]
          \/ /\ it = "invalid"
             /\ \E p \in PageIds \cup { INVALID_PAGE_ID } :
                   threads' = [ threads EXCEPT ![t] = ThrFlushNext(me, p, "invalid", {}) ]
          \/ /\ it = "invalid"
             /\ threads' = [ threads EXCEPT ![t] = [ me EXCEPT !.pc = "crashed" ] ]
    /\ UNCHANGED <<bpm, latch_, ncalls, notThr>>

\* std::scoped_lock<std::mutex> lck(latch_): the thread waits until latch_ is free
ThrLock(t) ==
    /\ ~PoolCrashed
    /\ threads[t].pc = "lock"
    /\ latch_ = NoThread
    /\ CallInBounds(threads[t])
    /\ latch_' = t
    /\ threads' = [ threads EXCEPT ![t].pc = "in" ]
    /\ UNCHANGED <<bpm, ncalls, notThr>>

\* a thread inside FlushAllPages whose loop another thread's call disturbs: an
\* insertion may rehash the table and an erasure frees a node, so the iterator
\* the loop holds is no longer one it may use
Disturbed(th, old, new) ==
    IF th.in_loop /\ old # new THEN [ th EXCEPT !.it = "invalid" ] ELSE th

\* the body of the call runs with latch_ held and the lock is released when
\* the call returns; a FlushPage made by FlushAllPages returns into the loop
ThrRun(t) ==
    /\ ~PoolCrashed
    /\ threads[t].pc = "in"
    /\ latch_ = t
    /\ \E res \in { ThreadCall(bpm, threads[t]) } :
          /\ bpm' = res.b
          /\ threads' = [ u \in PoolThreadIds |->
                            IF u = t
                               THEN IF threads[t].in_loop
                                       THEN [ threads[t] EXCEPT !.pc = "iter" ]
                                       ELSE IdleThread
                               ELSE Disturbed(threads[u], bpm.page_table_, res.b.page_table_) ]
    /\ latch_' = NoThread
    /\ UNCHANGED <<ncalls, notThr>>

NextThr ==
    \/ \E t \in PoolThreadIds, c \in PoolCalls : ThrCall(t, c)
    \/ \E t \in PoolThreadIds : ThrFlushAllPages(t)
    \/ \E t \in PoolThreadIds : ThrIterate(t)
    \/ \E t \in PoolThreadIds : ThrLock(t)
    \/ \E t \in PoolThreadIds : ThrRun(t)

SpecThr == Init /\ [][NextThr]_vars

(***************************************************************************)
(* The disk scheduler: worker threads, producers and the destructor.       *)
(***************************************************************************)
\* std::terminate has ended the process: no thread takes another step
Aborted == \E w \in Workers : wpc[w] = "terminated"

\* std::unique_lock<std::mutex> lck(m_)
WorkerLock(w) ==
    /\ ~Aborted
    /\ wpc[w] = "start"
    /\ m_holder = NoThread
    /\ m_holder' = w
    /\ wpc' = [ wpc EXCEPT ![w] = "locked" ]
    /\ UNCHANGED <<request_queue_, wreq, ppc, pnext, dpc, dput, calls, dequeued,
                   resolved, gateway, promise>>
    /\ UNCHANGED notSched

\* cv_.wait(lck): release m_ and wait for a notification
WorkerWait(w) ==
    /\ ~Aborted
    /\ wpc[w] = "locked"
    /\ m_holder' = NoThread
    /\ wpc' = [ wpc EXCEPT ![w] = "waiting" ]
    /\ UNCHANGED <<request_queue_, wreq, ppc, pnext, dpc, dput, calls, dequeued,
                   resolved, gateway, promise>>
    /\ UNCHANGED notSched

\* a wait without a predicate may also return with no notification
WorkerSpuriousWake(w) ==
    /\ ~Aborted
    /\ wpc[w] = "waiting"
    /\ wpc' = [ wpc EXCEPT ![w] = "woken" ]
    /\ UNCHANGED <<request_queue_, m_holder, wreq, ppc, pnext, dpc, dput, calls,
                   dequeued, resolved, gateway, promise>>
    /\ UNCHANGED notSched

\* cv_.wait returns once the woken thread has m_ again
WorkerReacquire(w) ==
    /\ ~Aborted
    /\ wpc[w] = "woken"
    /\ m_holder = NoThread
    /\ m_holder' = w
    /\ wpc' = [ wpc EXCEPT ![w] = "get" ]
    /\ UNCHANGED <<request_queue_, wreq, ppc, pnext, dpc, dput, calls, dequeued,
                   resolved, gateway, promise>>
    /\ UNCHANGED notSched

\* request_queue_.Get(); on std::nullopt return (lck is released), otherwise
\* lck.unlock()
WorkerGet(w) ==
    /\ ~Aborted
    /\ wpc[w] = "get"
    /\ ChannelCanGet(request_queue_)
    /\ LET g == ChannelGet(request_queue_)
       IN  /\ request_queue_' = g.q
           /\ m_holder' = NoThread
           /\ IF g.element = Nullopt
              THEN /\ wpc' = [ wpc EXCEPT ![w] = "exited" ]
                   /\ UNCHANGED <<wreq, dequeued>>
              ELSE /\ wpc' = [ wpc EXCEPT ![w] = "exec" ]
                   /\ wreq' = [ wreq EXCEPT ![w] = g.element ]
                   /\ dequeued' = [ dequeued EXCEPT ![g.element] = @ + 1 ]
    /\ UNCHANGED <<ppc, pnext, dpc, dput, calls, resolved, gateway, promise>>
    /\ UNCHANGED notSched

\* disk_manager_->WritePage / ReadPage
WorkerExec(w) ==
    /\ ~Aborted
    /\ wpc[w] = "exec"
    /\ calls' = Append(calls, WorkerGatewayCall(w, wreq[w]))
    /\ \E o \in GatewayOutcomesOf(ReqPageId(wreq[w])) :
          /\ gateway' = [ gateway EXCEPT ![wreq[w]] = o ]
          /\ wpc' = [ wpc EXCEPT ![w] = WorkerAfterGateway(o) ]
    /\ UNCHANGED <<request_queue_, m_holder, wreq, ppc, pnext, dpc, dput, dequeued,
                   resolved, promise>>
    /\ UNCHANGED notSched

\* r->callback_.set_value(true), then the next round of the loop
WorkerResolve(w) ==
    /\ ~Aborted
    /\ wpc[w] = "resolve"
    /\ resolved' = SetValue(resolved, wreq[w])
    /\ promise' = PromiseSetValue(promise, wreq[w])
    /\ wreq' = [ wreq EXCEPT ![w] = NoRequest ]
    /\ wpc' = [ wpc EXCEPT ![w] = "start" ]
    /\ UNCHANGED <<request_queue_, m_holder, ppc, pnext, dpc, dput, calls, dequeued,
                   gateway>>
    /\ UNCHANGED notSched

\* Schedule: request_queue_.Put(std::move(r))
SchedulePut(p) ==
    /\ ~Aborted
    /\ ppc[p] = "put"
    /\ request_queue_' = ChannelPut(request_queue_, pnext[p])
    /\ ppc' = [ ppc EXCEPT ![p] = "notify" ]
    /\ UNCHANGED <<m_holder, wpc, wreq, pnext, dpc, dput, calls, dequeued,
                   resolved, gateway, promise>>
    /\ UNCHANGED notSched

\* Schedule: cv_.notify_one(), then the producer's next request
ScheduleNotify(p) ==
    /\ ~Aborted
    /\ ppc[p] = "notify"
    /\ \/ \E w \in Workers : wpc[w] = "waiting" /\ wpc' = NotifyOne(wpc, w)
       \/ (\A w \in Workers : wpc[w] # "waiting") /\ UNCHANGED wpc
    /\ LET n == NextRequest(p, pnext[p] + 1)
       IN  /\ pnext' = [ pnext EXCEPT ![p] = n ]
           /\ ppc' = [ ppc EXCEPT ![p] = IF n = NoRequest THEN "done" ELSE "put" ]
    /\ UNCHANGED <<request_queue_, m_holder, wreq, dpc, dput, calls, dequeued,
                   resolved, gateway, promise>>
    /\ UNCHANGED notSched

\* the scheduler is destroyed once no thread calls Schedule any more
DestructorStart ==
    /\ ~Aborted
    /\ dpc = "idle"
    /\ \A p \in Producers : ppc[p] = "done"
    /\ dpc' = "put"
    /\ UNCHANGED <<request_queue_, m_holder, wpc, wreq, ppc, pnext, dput, calls,
                   dequeued, resolved, gateway, promise>>
    /\ UNCHANGED notSched

\* ~DiskScheduler: request_queue_.Put(std::nullopt), once per worker
DestructorPut ==
    /\ ~Aborted
    /\ dpc = "put"
    /\ request_queue_' = ChannelPut(request_queue_, Nullopt)
    /\ dput' = dput + 1
    /\ dpc' = IF dput + 1 = SchedWorkers THEN "notify" ELSE "put"
    /\ UNCHANGED <<m_holder, wpc, wreq, ppc, pnext, calls, dequeued, resolved, gateway, promise>>
    /\ UNCHANGED notSched

\* ~DiskScheduler: cv_.notify_all()
DestructorNotifyAll ==
    /\ ~Aborted
    /\ dpc = "notify"
    /\ wpc' = NotifyAll(wpc)
    /\ dpc' = "join"
    /\ UNCHANGED <<request_queue_, m_holder, wreq, ppc, pnext, dput, calls,
                   dequeued, resolved, gateway, promise>>
    /\ UNCHANGED notSched

\* ~DiskScheduler: t->join() of every worker
DestructorJoin ==
    /\ ~Aborted
    /\ dpc = "join"
    /\ \A w \in Workers : wpc[w] = "exited"
    /\ dpc' = "done"
    /\ UNCHANGED <<request_queue_, m_holder, wpc, wreq, ppc, pnext, dput, calls,
                   dequeued, resolved, gateway, promise>>
    /\ UNCHANGED notSched

WorkerStep(w) ==
    \/ WorkerLock(w)
    \/ WorkerWait(w)
    \/ WorkerReacquire(w)
    \/ WorkerGet(w)
    \/ WorkerExec(w)
    \/ WorkerResolve(w)

ProducerStep(p) ==
    \/ SchedulePut(p)
    \/ ScheduleNotify(p)

DestructorStep ==
    \/ DestructorStart
    \/ DestructorPut
    \/ DestructorNotifyAll
    \/ DestructorJoin

NextSched ==
    \/ \E w \in Workers : WorkerStep(w)
    \/ \E w \in Workers : WorkerSpuriousWake(w)
    \/ \E p \in Producers : ProducerStep(p)
    \/ DestructorStep

SpecSched == Init /\ [][NextSched]_vars

\* every thread that can take a step eventually takes one; a thread that asks
\* for m_ gets it if m_ is free again and again; no wait is promised a spurious
\* return, and the owner of the scheduler need not ever destroy it
SchedFairness ==
    /\ \A w \in Workers :
          /\ WF_vars(WorkerWait(w) \/ WorkerGet(w) \/ WorkerExec(w) \/ WorkerResolve(w))
          /\ SF_vars(WorkerLock(w) \/ WorkerReacquire(w))
    /\ \A p \in Producers : WF_vars(ProducerStep(p))
    /\ WF_vars(DestructorPut \/ DestructorNotifyAll \/ DestructorJoin)

SpecSchedFair == Init /\ [][NextSched]_vars /\ SchedFairness

(***************************************************************************)
(* The trie driven by its clients: any sequence of Get, Put and Remove on  *)
(* any trie handed out so far.  A call that dereferences a null root_ ends  *)
(* the process: no call follows it.                                        *)
(***************************************************************************)
TrieIds == 1 .. Len(tries)

TrieAlive == trie_last.outcome = "ok"

TrieFinish(op, t, key, value, res) ==
    IF res.outcome = "ok"
    THEN /\ trie_nodes' = res.h
         /\ tries' = Append(tries, res.root)
         /\ trie_last' = [ op |-> op, t |-> t, key |-> key, value |-> value,
                           outcome |-> "ok" ]
    ELSE /\ \E o \in NullDerefOutcomes :
                trie_last' = [ op |-> op, t |-> t, key |-> key, value |-> value,
                               outcome |-> o ]
         /\ UNCHANGED <<trie_nodes, tries>>

TriePut(t, key, value) ==
    /\ TrieAlive
    /\ Len(tries) <= MaxTrieOps
    /\ TrieFinish("Put", t, key, value, Trie_Put(trie_nodes, tries[t], key, value))
    /\ UNCHANGED <<trie_got, notTrie>>

TrieRemove(t, key) ==
    /\ TrieAlive
    /\ Len(tries) <= MaxTrieOps
    /\ TrieFinish("Remove", t, key, NullValue, Trie_Remove(trie_nodes, tries[t], key))
    /\ UNCHANGED <<trie_got, notTrie>>

TrieGet(t, key) ==
    /\ TrieAlive
    /\ trie_got' = Trie_Get(trie_nodes, tries[t], key)
    /\ UNCHANGED <<trie_nodes, tries, trie_last, notTrie>>

NextTrie ==
    \/ \E t \in TrieIds, key \in TrieKeys, value \in TrieValues : TriePut(t, key, value)
    \/ \E t \in TrieIds, key \in TrieKeys : TrieRemove(t, key)
    \/ \E t \in TrieIds, key \in TrieKeys : TrieGet(t, key)

SpecTrie == Init /\ [][NextTrie]_vars

(***************************************************************************)
(* Claims about the replacer (SpecLRU).                                    *)
(***************************************************************************)
EvictableFrames(r) == { f \in DOMAIN r.node_store_ : r.node_store_[f].is_evictable_ }

\* fewer than K recorded accesses: the backward K-distance is infinite
InfiniteKDistance(r, f) == Len(r.node_store_[f].history_) < r.k_

\* frame f has a larger backward K-distance than frame g, ties among infinite
\* distances broken by the earlier oldest recorded access
LargerKDistance(r, f, g) ==
    LET hf == r.node_store_[f].history_
        hg == r.node_store_[g].history_
    IN  \/ InfiniteKDistance(r, f) /\ ~InfiniteKDistance(r, g)
        \/ InfiniteKDistance(r, f) /\ InfiniteKDistance(r, g) /\ Last(hf) < Last(hg)
        \/ ~InfiniteKDistance(r, f) /\ ~InfiniteKDistance(r, g) /\ hf[r.k_] < hg[r.k_]

\* C7: Evict returns none iff no known frame is evictable (and then changes
\* nothing); otherwise the frame it returns was evictable, had a larger backward
\* K-distance than every other evictable frame (infinite above finite, infinite
\* ties by the earliest oldest access, finite by the oldest K-th most recent
\* access), and its node is removed while every other node is kept.
C7_EvictLargestKDistance ==
    [][ (lru_last'.op = "Evict" /\ LruEvict) =>
          LET ev == EvictableFrames(replacer)
              v  == lru_last'.frame
          IN  /\ (~lru_last'.ok) <=> (ev = {})
              /\ ~lru_last'.ok => replacer' = replacer /\ v = INVALID_PAGE_ID
              /\ lru_last'.ok =>
                    /\ v \in ev
                    /\ \A g \in ev \ {v} : LargerKDistance(replacer, v, g)
                    /\ DOMAIN replacer'.node_store_ = (DOMAIN replacer.node_store_) \ {v}
                    /\ \A g \in DOMAIN replacer'.node_store_ :
                          replacer'.node_store_[g] = replacer.node_store_[g]
      ]_vars

\* Evict has just returned a frame while an evictable frame with K recorded
\* accesses and a non-evictable frame with fewer than K both stayed behind
C7_Witness ==
    /\ lru_last.op = "Evict" /\ lru_last.ok
    /\ \E g \in EvictableFrames(replacer) : ~InfiniteKDistance(replacer, g)
    /\ \E g \in (DOMAIN replacer.node_store_) \ EvictableFrames(replacer) :
          InfiniteKDistance(replacer, g)

\* C17: after any sequence of RecordAccess, SetEvictable, Remove and Evict
\* calls, those that throw included, Size() is the number of known frames whose
\* is_evictable_ is set, and it is at most the capacity the replacer was
\* constructed with.
C17_SizeCountsEvictable ==
    /\ Size(replacer) = Cardinality(EvictableFrames(replacer))
    /\ Size(replacer) <= replacer.max_size_

\* C17 holds as long as no call has thrown for want of capacity
C17_SizeCountsEvictableUntilFull ==
    Size(replacer) <= replacer.max_size_ =>
        Size(replacer) = Cardinality(EvictableFrames(replacer))

PinCount(b, p) == b.pages_[b.page_table_[p]].pin_count_

Dirty(b, p) == b.pages_[b.page_table_[p]].is_dirty_

\* C1: a page whose pin count is > 0 stays in the page table, mapped to the same
\* frame, across every call; and with an empty free list and every resident page
\* pinned, NewPage and FetchPage of a non-resident page return nullptr.
C1_PinnedNeverEvicted ==
    [][ /\ \A p \in DOMAIN bpm.page_table_ :
              PinCount(bpm, p) > 0 =>
                  /\ p \in DOMAIN bpm'.page_table_
                  /\ bpm'.page_table_[p] = bpm.page_table_[p]
        /\ ( /\ bpm.free_list_ = << >>
             /\ \A p \in DOMAIN bpm.page_table_ : PinCount(bpm, p) > 0
             /\ \/ BpmNewPage
                \/ \E p \in HandedOut \ DOMAIN bpm.page_table_ : BpmFetchPage(p) )
           => ~bpm_last'.ret
      ]_vars

\* C2: a successful UnpinPage(p, d) leaves the dirty flag at (old flag OR d).
C2_UnpinOrsDirty ==
    [][ \A p \in HandedOut, d \in BOOLEAN :
          (BpmUnpinPage(p, d) /\ bpm_last'.ret) =>
              Dirty(bpm', p) = (Dirty(bpm, p) \/ d)
      ]_vars

\* C10: NewPage returns nullptr iff the free list is empty and the replacer has
\* no evictable frame; a page id it returns is greater than every id it returned
\* before, and the frame it returns has zeroed bytes, pin count 1, a clear dirty
\* flag and the new page id, is known to the replacer as non-evictable, and is
\* the page table's entry for the new id.
C10_NewPage ==
    [][ (bpm_last'.op = "NewPage" /\ BpmNewPage) =>
          LET id == bpm_last'.page_id
          IN  /\ (~bpm_last'.ret) <=>
                    (bpm.free_list_ = << >> /\ EvictableFrames(bpm.replacer_) = {})
              /\ bpm_last'.ret =>
                    /\ \A q \in bpm_ids : id > q
                    /\ id \in DOMAIN bpm'.page_table_
                    /\ LET f == bpm'.page_table_[id]
                       IN  /\ bpm'.pages_[f] = [ page_id_ |-> id, pin_count_ |-> 1,
                                                 is_dirty_ |-> FALSE, data_ |-> ZeroData ]
                           /\ Known(bpm'.replacer_, f)
                           /\ ~bpm'.replacer_.node_store_[f].is_evictable_
                           /\ \A q \in DOMAIN bpm'.page_table_ :
                                 bpm'.page_table_[q] = f => q = id
      ]_vars

\* NewPage has just returned a page in a frame taken from the replacer, after an
\* earlier page was deleted, while the disk holds bytes a client wrote
C10_Witness ==
    /\ bpm_last.op = "NewPage" /\ bpm_last.ret
    /\ bpm.free_list_ = << >>
    /\ Cardinality(bpm_ids) > PoolSize
    /\ \E p \in PageIds : bpm.disk[p] = ClientData

\* the history of a frame after one more access at time now
OneMoreAccess(r, f, now) ==
    IF Known(r, f)
    THEN SubSeq(<<now>> \o r.node_store_[f].history_, 1,
                IF Len(r.node_store_[f].history_) < r.k_
                THEN Len(r.node_store_[f].history_) + 1 ELSE r.k_)
    ELSE <<now>>

\* the read requests among the disk requests of a call
Reads(io) == SelectSeq(io, LAMBDA q : ~q.is_write_)

\* the write requests among the disk requests of a call
Writes(io) == SelectSeq(io, LAMBDA q : q.is_write_)

\* C11: FetchPage of a resident page returns it with its pin count raised by
\* one and one access recorded for its frame, schedules no disk request and
\* leaves the page table, the free list, every other frame and the disk as they
\* were; FetchPage of a non-resident page that obtains a frame schedules exactly
\* one read, for that page id, and returns with the page in the page table, its
\* frame holding the bytes read (zeroed bytes when the read failed), pin count
\* 1, a clear dirty flag, and known to the replacer as non-evictable.
C11_FetchPage ==
    [][ \A p \in HandedOut :
          (bpm_last'.op = "FetchPage" /\ BpmFetchPage(p)) =>
              IF p \in DOMAIN bpm.page_table_
              THEN LET f == bpm.page_table_[p]
                   IN  /\ bpm_last'.ret
                       /\ bpm_last'.io = << >>
                       /\ bpm'.pages_ = [ bpm.pages_ EXCEPT ![f].pin_count_ = @ + 1 ]
                       /\ bpm'.page_table_ = bpm.page_table_
                       /\ bpm'.free_list_ = bpm.free_list_
                       /\ bpm'.disk = bpm.disk
                       /\ bpm'.now = bpm.now + 1
                       /\ Known(bpm'.replacer_, f)
                       /\ bpm'.replacer_.node_store_[f].history_ =
                              OneMoreAccess(bpm.replacer_, f, bpm'.now)
                       /\ \A g \in DOMAIN bpm.replacer_.node_store_ \ {f} :
                              /\ Known(bpm'.replacer_, g)
                              /\ bpm'.replacer_.node_store_[g] = bpm.replacer_.node_store_[g]
              ELSE bpm_last'.ret =>
                       /\ Reads(bpm_last'.io) = << [ is_write_ |-> FALSE, page_id_ |-> p ] >>
                       /\ p \in DOMAIN bpm'.page_table_
                       /\ LET f == bpm'.page_table_[p]
                          IN  /\ bpm'.pages_[f] = [ page_id_ |-> p, pin_count_ |-> 1,
                                                    is_dirty_ |-> FALSE,
                                                    data_ |-> IF Reads(bpm_last'.failed) = << >>
                                                              THEN bpm'.disk[p]
                                                              ELSE ZeroData ]
                              /\ Known(bpm'.replacer_, f)
                              /\ ~bpm'.replacer_.node_store_[f].is_evictable_
      ]_vars

\* FetchPage has just returned a page that was not resident, in the frame of a
\* dirty victim that it wrote back before the read
C11_Witness ==
    /\ bpm_last.op = "FetchPage" /\ bpm_last.ret /\ bpm_last.failed = << >>
    /\ bpm_last.from = "replacer"
    /\ Len(Writes(bpm_last.io)) = 1
    /\ Len(Reads(bpm_last.io)) = 1
    /\ PinCount(bpm, bpm_last.page_id) = 1

\* the frame is known to the replacer and marked evictable
Evictable(r, f) == Known(r, f) /\ r.node_store_[f].is_evictable_

\* C12: UnpinPage returns false and changes nothing in the pool or the replacer
\* when the page is not resident or its pin count is 0; otherwise it returns
\* true, lowers the pin count of the page's frame by one (no other pin count,
\* the page table and the free list unchanged), leaves the frame evictable when
\* the count has reached 0 and its evictable flag as it was when it has not, and
\* touches no other node of the replacer; no pin count is ever negative.
C12_UnpinPage ==
    /\ \A f \in FrameIds : bpm.pages_[f].pin_count_ >= 0
    /\ [][ /\ \A f \in FrameIds : bpm'.pages_[f].pin_count_ >= 0
           /\ \A p \in HandedOut, d \in BOOLEAN :
                 (bpm_last'.op = "UnpinPage" /\ BpmUnpinPage(p, d)) =>
                     IF p \notin DOMAIN bpm.page_table_ \/ PinCount(bpm, p) = 0
                     THEN ~bpm_last'.ret /\ bpm' = bpm
                     ELSE LET f == bpm.page_table_[p]
                          IN  /\ bpm_last'.ret
                              /\ bpm'.pages_[f].pin_count_ = bpm.pages_[f].pin_count_ - 1
                              /\ \A g \in FrameIds \ {f} : bpm'.pages_[g] = bpm.pages_[g]
                              /\ bpm'.page_table_ = bpm.page_table_
                              /\ bpm'.free_list_ = bpm.free_list_
                              /\ Evictable(bpm'.replacer_, f) =
                                     IF bpm'.pages_[f].pin_count_ = 0 THEN TRUE
                                     ELSE Evictable(bpm.replacer_, f)
                              /\ DOMAIN bpm'.replacer_.node_store_ =
                                     DOMAIN bpm.replacer_.node_store_
                              /\ \A g \in DOMAIN bpm.replacer_.node_store_ \ {f} :
                                     bpm'.replacer_.node_store_[g] =
                                         bpm.replacer_.node_store_[g]
         ]_vars

\* UnpinPage has just returned false for a resident page that an earlier
\* UnpinPage had brought to pin count 0 and made evictable, while another page
\* is still pinned
C12_Witness ==
    /\ bpm_last.op = "UnpinPage" /\ ~bpm_last.ret
    /\ bpm_last.page_id \in DOMAIN bpm.page_table_
    /\ PinCount(bpm, bpm_last.page_id) = 0
    /\ Evictable(bpm.replacer_, bpm.page_table_[bpm_last.page_id])
    /\ \E q \in DOMAIN bpm.page_table_ : PinCount(bpm, q) > 0

\* C13: DeletePage returns true and changes nothing when the page is not
\* resident, returns false and changes nothing when its pin count is > 0, and
\* otherwise returns true with the page erased from the page table, its frame
\* unknown to the replacer, appended to the free list and reset (no page id,
\* pin count 0, clear dirty flag, zeroed bytes), with no disk request and the
\* disk as it was even when the frame was dirty; a FetchPage of an id that is
\* not in the page table, as the deleted one, is a miss: it finds a frame when
\* the free list has one, and if it returns the page, it has scheduled one read
\* for it.
C13_DeletePage ==
    [][ /\ \A p \in HandedOut :
              (bpm_last'.op = "DeletePage" /\ BpmDeletePage(p)) =>
                  /\ bpm_last'.io = << >>
                  /\ bpm'.disk = bpm.disk
                  /\ IF p \notin DOMAIN bpm.page_table_
                     THEN bpm_last'.ret /\ bpm' = bpm
                     ELSE IF PinCount(bpm, p) > 0
                     THEN ~bpm_last'.ret /\ bpm' = bpm
                     ELSE LET f == bpm.page_table_[p]
                          IN  /\ bpm_last'.ret
                              /\ bpm'.page_table_ = PageTableErase(bpm.page_table_, p)
                              /\ ~Known(bpm'.replacer_, f)
                              /\ \A g \in DOMAIN bpm.replacer_.node_store_ \ {f} :
                                     /\ Known(bpm'.replacer_, g)
                                     /\ bpm'.replacer_.node_store_[g] =
                                            bpm.replacer_.node_store_[g]
                              /\ bpm'.free_list_ = Append(bpm.free_list_, f)
                              /\ bpm'.pages_ = [ bpm.pages_ EXCEPT ![f] = EmptyPage ]
        /\ \A p \in HandedOut \ DOMAIN bpm.page_table_ :
              (bpm_last'.op = "FetchPage" /\ BpmFetchPage(p)) =>
                  /\ bpm_last'.from # "page_table"
                  /\ bpm.free_list_ # << >> => bpm_last'.ret
                  /\ bpm_last'.ret =>
                         Reads(bpm_last'.io) = << [ is_write_ |-> FALSE, page_id_ |-> p ] >>
      ]_vars

\* DeletePage has just deleted a resident page: its frame is reset and last in
\* the free list, the page is gone from the page table, and bytes a client wrote
\* into another frame are on no page of the disk
C13_Witness ==
    /\ bpm_last.op = "DeletePage" /\ bpm_last.ret
    /\ bpm_last.frame_id # INVALID_PAGE_ID
    /\ bpm.pages_[bpm_last.frame_id] = EmptyPage
    /\ Last(bpm.free_list_) = bpm_last.frame_id
    /\ bpm_last.page_id \notin DOMAIN bpm.page_table_
    /\ \A p \in PageIds : bpm.disk[p] = ZeroData
    /\ \E f \in FrameIds : bpm.pages_[f].data_ = ClientData

\* C14: FlushPage returns false, schedules no disk request and changes nothing
\* when the page id is INVALID_PAGE_ID or the page is not resident; otherwise it
\* schedules exactly one request, a write for that page id, returns true with
\* the frame's bytes on the disk under that id (when the gateway did not fail
\* the write), and leaves the dirty flag clear
\* and everything else (page table, free list, pin counts, bytes, replacer) as
\* it was.
C14_FlushPage ==
    [][ \A p \in HandedOut \cup {INVALID_PAGE_ID} :
          (bpm_last'.op = "FlushPage" /\ BpmFlushPage(p)) =>
              IF p = INVALID_PAGE_ID \/ p \notin DOMAIN bpm.page_table_
              THEN /\ ~bpm_last'.ret
                   /\ bpm_last'.io = << >>
                   /\ bpm' = bpm
              ELSE LET f == bpm.page_table_[p]
                   IN  /\ bpm_last'.ret
                       /\ bpm_last'.io = << [ is_write_ |-> TRUE, page_id_ |-> p ] >>
                       /\ bpm'.disk = IF bpm_last'.failed = << >>
                                       THEN [ bpm.disk EXCEPT ![p] = bpm.pages_[f].data_ ]
                                       ELSE bpm.disk
                       /\ bpm'.pages_ = [ bpm.pages_ EXCEPT ![f].is_dirty_ = FALSE ]
                       /\ bpm'.page_table_ = bpm.page_table_
                       /\ bpm'.free_list_ = bpm.free_list_
                       /\ bpm'.replacer_ = bpm.replacer_
      ]_vars

\* FlushPage has just written the bytes a client wrote into a page that is
\* still pinned, while another resident page is dirty
C14_Witness ==
    /\ bpm_last.op = "FlushPage" /\ bpm_last.ret /\ bpm_last.failed = << >>
    /\ bpm.disk[bpm_last.page_id] = ClientData
    /\ bpm.pages_[bpm_last.frame_id] =
           [ page_id_ |-> bpm_last.page_id, pin_count_ |-> 1, is_dirty_ |-> FALSE,
             data_ |-> ClientData ]
    /\ \E q \in DOMAIN bpm.page_table_ : Dirty(bpm, q)

\* C16: when the read of a FetchPage miss fails, FetchPage returns nullptr, the
\* frame it had taken is in the free list and the page table has no entry for
\* the page; when the write-back of a dirty victim fails, the NewPage or
\* FetchPage that asked for the frame returns nullptr and the victim's page is
\* still resident in its frame with its dirty flag set.
C16_DiskFailureUndone ==
    [][ /\ (bpm_last'.op = "FetchPage" /\ Reads(bpm_last'.failed) # << >>) =>
              /\ ~bpm_last'.ret
              /\ \E i \in 1 .. Len(bpm'.free_list_) : bpm'.free_list_[i] = bpm_last'.frame_id
              /\ bpm_last'.page_id \notin DOMAIN bpm'.page_table_
        /\ (bpm_last'.op \in { "NewPage", "FetchPage" } /\ Writes(bpm_last'.failed) # << >>) =>
              LET victim == bpm_last'.failed[1].page_id_
              IN  /\ ~bpm_last'.ret
                  /\ victim \in DOMAIN bpm'.page_table_
                  /\ bpm'.page_table_[victim] = bpm.page_table_[victim]
                  /\ Dirty(bpm', victim)
      ]_vars

\* C16, the failed read alone
C16_FailedReadReturnsNone ==
    [][ (bpm_last'.op = "FetchPage" /\ Reads(bpm_last'.failed) # << >>) => ~bpm_last'.ret ]_vars

\* C16, the failed write-back alone
C16_FailedWriteBackKeepsVictim ==
    [][ (bpm_last'.op \in { "NewPage", "FetchPage" } /\ Writes(bpm_last'.failed) # << >>) =>
            bpm_last'.failed[1].page_id_ \in DOMAIN bpm'.page_table_ ]_vars

\* C19: in every state the pool's clients can bring about, a frame whose pin
\* count is > 0 is not marked evictable in the replacer.
C19_PinnedNotEvictable ==
    \A f \in FrameIds :
        bpm.pages_[f].pin_count_ > 0 => ~Evictable(bpm.replacer_, f)

\* the frame ids in the free list and those the page table maps to
FreeFrames(b) == { b.free_list_[i] : i \in 1 .. Len(b.free_list_) }

MappedFrames(b) == { b.page_table_[p] : p \in DOMAIN b.page_table_ }

\* C20: between pool operations the frames of the free list and the frames the
\* page table maps to are disjoint and together are 0 .. pool_size - 1, no frame
\* is twice in the free list, no two page ids map to one frame, and a mapped
\* frame holds the page id that maps to it.
C20_FramesPartitioned ==
    /\ FreeFrames(bpm) \cap MappedFrames(bpm) = {}
    /\ FreeFrames(bpm) \cup MappedFrames(bpm) = FrameIds
    /\ Cardinality(FreeFrames(bpm)) = Len(bpm.free_list_)
    /\ \A p, q \in DOMAIN bpm.page_table_ :
          bpm.page_table_[p] = bpm.page_table_[q] => p = q
    /\ \A p \in DOMAIN bpm.page_table_ : bpm.pages_[bpm.page_table_[p]].page_id_ = p

\* DeletePage has just put a frame back into the free list, after the pool had
\* been full and more page ids than frames were handed out, while another page
\* is still resident
C20_Witness ==
    /\ bpm_last.op = "DeletePage" /\ bpm_last.ret
    /\ bpm_last.frame_id \in FreeFrames(bpm)
    /\ MappedFrames(bpm) # {}
    /\ bpm.next_page_id_ > PoolSize

\* what C21 says of a NewPage or FetchPage step that has ended: a dirty victim
\* of the replacer was written, once, under its old page id and with the bytes
\* its frame held (they are on the disk unless the gateway failed the write),
\* and its page table entry is gone and the frame holds the new page id; in
\* every other case nothing was written
WriteBackDone ==
    LET f == bpm_last'.frame_id
    IN  IF bpm_last'.from = "replacer" /\ bpm.pages_[f].is_dirty_
        THEN LET victim == bpm.pages_[f].page_id_
             IN  /\ Writes(bpm_last'.io) = << [ is_write_ |-> TRUE, page_id_ |-> victim ] >>
                 /\ bpm_last'.io[1].is_write_
                 /\ Writes(bpm_last'.failed) = << >> =>
                        bpm'.disk = [ bpm.disk EXCEPT ![victim] = bpm.pages_[f].data_ ]
                 /\ Writes(bpm_last'.failed) # << >> => bpm'.disk = bpm.disk
                 /\ victim \notin DOMAIN bpm'.page_table_
                 /\ bpm'.pages_[f].page_id_ = bpm_last'.page_id
                 /\ ~bpm'.pages_[f].is_dirty_
        ELSE /\ Writes(bpm_last'.io) = << >>
             /\ bpm'.disk = bpm.disk

\* C21: when NewFrame takes a victim of the replacer whose dirty flag is set,
\* it schedules one write of the frame's bytes for the victim's old page id,
\* before anything else of the call is scheduled, and the write is done when
\* the victim's page table entry is erased and the frame is reset for the new
\* page; a clean victim and a frame of the free list cause no write.
C21_DirtyVictimWrittenBack ==
    [][ /\ (bpm_last'.op = "NewPage" /\ BpmNewPage) => WriteBackDone
        /\ \A p \in { bpm_last'.page_id } :
              (bpm_last'.op = "FetchPage" /\ BpmFetchPage(p)) => WriteBackDone
      ]_vars

\* NewPage has just been given the frame of a dirty victim, whose bytes, written
\* by a client, are on the disk now and whose page is not resident any more
C21_Witness ==
    /\ bpm_last.op = "NewPage" /\ bpm_last.ret
    /\ bpm_last.from = "replacer"
    /\ bpm_last.failed = << >>
    /\ Len(bpm_last.io) = 1
    /\ bpm.disk[bpm_last.io[1].page_id_] = ClientData
    /\ bpm_last.io[1].page_id_ \notin DOMAIN bpm.page_table_
    /\ bpm.pages_[bpm_last.frame_id].data_ = ZeroData

\* C24: no sequence of public buffer pool operations makes the replacer fail
\* fast: no pool call ends with an exception thrown by SetEvictable (frame
\* unknown to the replacer, or the evictable count raised above the pool size)
\* or by Remove (known frame that is not evictable), the evictable count never
\* exceeds the pool size, every resident page has a replacer node and every
\* resident page with pin count 0 is evictable.
C24_ReplacerNeverFailsFast ==
    /\ ~bpm_last.threw
    /\ Size(bpm.replacer_) <= PoolSize
    /\ Cardinality(EvictableFrames(bpm.replacer_)) <= PoolSize
    /\ \A p \in DOMAIN bpm.page_table_ :
          /\ Known(bpm.replacer_, bpm.page_table_[p])
          /\ PinCount(bpm, p) = 0 => Evictable(bpm.replacer_, bpm.page_table_[p])

\* DeletePage has just had the replacer remove the frame of an unpinned page,
\* while another page, unpinned by UnpinPage, is resident and evictable
C24_Witness ==
    /\ bpm_last.op = "DeletePage" /\ bpm_last.ret
    /\ bpm_last.frame_id \in FrameIds
    /\ ~Known(bpm.replacer_, bpm_last.frame_id)
    /\ \E p \in DOMAIN bpm.page_table_ :
          PinCount(bpm, p) = 0 /\ Evictable(bpm.replacer_, bpm.page_table_[p])

(***************************************************************************)
(* Claims about the buffer pool called by several threads (SpecThr).       *)
(***************************************************************************)
\* C23: every public buffer pool operation, FlushAllPages included, reads and
\* writes the page table only while the calling thread holds the pool latch,
\* so that no thread reads or iterates the page table while another thread is
\* modifying it.
C23_PageTableOnlyUnderLatch ==
    /\ \A t \in PoolThreadIds :
          (threads[t].pc = "in" \/ ReadsPageTable(t)) => latch_ = t
    /\ \A a, b \in PoolThreadIds :
          ~(a # b /\ ReadsPageTable(a) /\ WritesPageTable(b))

\* C23, its consequence alone: no thread is at a read of the page table while
\* another thread is inside a call that inserts into it or erases from it.
C23_NoReadDuringWrite ==
    \A a, b \in PoolThreadIds :
        ~(a # b /\ ReadsPageTable(a) /\ WritesPageTable(b))

\* C23, the part that the locked calls keep: a thread inside NewPage, FetchPage,
\* UnpinPage, FlushPage or DeletePage holds the latch, so at most one thread is
\* inside such a call.
C23_LockedCallsExclusive ==
    /\ \A t \in PoolThreadIds : threads[t].pc = "in" => latch_ = t
    /\ \A a, b \in PoolThreadIds :
          (threads[a].pc = "in" /\ threads[b].pc = "in") => a = b

\* C23: a loop of FlushAllPages has gone on through an iterator that another
\* thread's call had made invalid.
C23_LoopOnInvalidIterator ==
    \E t \in PoolThreadIds :
        threads[t].in_loop /\ threads[t].it = "invalid" /\ threads[t].pc \in { "lock", "crashed" }

(***************************************************************************)
(* Claims about the disk scheduler (SpecSched, SpecSchedFair).             *)
(***************************************************************************)
\* request r has been passed to Schedule and put into the queue
Scheduled(r) ==
    LET p == ProducerOf(r)
    IN  \/ ppc[p] = "done"
        \/ pnext[p] > r
        \/ pnext[p] = r /\ ppc[p] = "notify"

CallsFor(r) == { i \in 1 .. Len(calls) : calls[i].req = r }

\* C3: every request passed to Schedule is eventually taken from the queue,
\* executed against the gateway and has its promise resolved.
C3_ScheduledEventuallyResolved ==
    \A r \in Requests :
        Scheduled(r) ~> (dequeued[r] > 0 /\ CallsFor(r) # {} /\ resolved[r] > 0)

GatewayFailed(r) == gateway[r] \in { "failed", "threw" }

\* C15: when the gateway call of a request fails, the worker thread stays alive
\* and the request's promise is not resolved with success (it is set to failure
\* by the worker's next step).
C15_GatewayFailureResolvesWithFailure ==
    /\ ~Aborted
    /\ \A r \in Requests :
          GatewayFailed(r) => \A i \in 1 .. Len(promise[r]) : ~promise[r][i]

\* C15, first way to fail: the call returns, the failure is not an exception
C15_ReturnedFailureNotSuccess ==
    \A r \in Requests : gateway[r] = "failed" => promise[r] # << TRUE >>

\* C15, second way to fail: the call throws
C15_ThrownFailureKeepsWorker ==
    \A r \in Requests : gateway[r] = "threw" => ~Aborted

\* C9: once the destructor has put one sentinel per worker and notified the
\* workers, every worker exits and the destructor's joins return.
C9_ShutdownTerminates ==
    (dpc = "join") ~> (dpc = "done" /\ \A w \in Workers : wpc[w] = "exited")

(***************************************************************************)
(* Claims about the trie (SpecTrie).                                       *)
(***************************************************************************)
\* what a trie maps every key of the model to
Contents(h, root) == [ k \in TrieKeys |-> Trie_Get(h, root, k) ]

\* the nodes a trie refers to
RECURSIVE Reach(_, _)
Reach(h, id) ==
    IF id = NullNode THEN {}
    ELSE {id} \cup UNION { Reach(h, h[id].children_[c]) : c \in DOMAIN h[id].children_ }

\* the nodes some trie handed out so far refers to
Published == UNION { Reach(trie_nodes, tries[t]) : t \in TrieIds }

\* C4: put(k, v) returns a trie whose get(k) is v and whose get(k') is the
\* receiver's get(k') for every other key k', for every receiver and key, the
\* empty trie and the empty key included.
C4_PutCorrect ==
    [][ \A t \in TrieIds, key \in TrieKeys, value \in TrieValues :
          TriePut(t, key, value) =>
              /\ trie_last'.outcome = "ok"
              /\ Contents(trie_nodes', Last(tries')) =
                     [ Contents(trie_nodes, tries[t]) EXCEPT ![key] = value ] ]_vars

\* Put does what C4 says on every receiver and key but the empty key on the
\* empty trie, where it dereferences the null root_.
PutCorrectOffNullRoot ==
    [][ \A t \in TrieIds, key \in TrieKeys, value \in TrieValues :
          TriePut(t, key, value) =>
              IF tries[t] = NullNode /\ key = << >>
              THEN trie_last'.outcome \in NullDerefOutcomes
              ELSE /\ trie_last'.outcome = "ok"
                   /\ Contents(trie_nodes', Last(tries')) =
                          [ Contents(trie_nodes, tries[t]) EXCEPT ![key] = value ] ]_vars

\* C5: remove(k) returns a trie whose get(k) is none and whose get(k') is the
\* receiver's get(k') for every other key k', also when k is absent from the
\* receiver and when the receiver is the empty trie.
C5_RemoveCorrect ==
    [][ \A t \in TrieIds, key \in TrieKeys :
          TrieRemove(t, key) =>
              /\ trie_last'.outcome = "ok"
              /\ Contents(trie_nodes', Last(tries')) =
                     [ Contents(trie_nodes, tries[t]) EXCEPT ![key] = NullValue ] ]_vars

\* Remove does what C5 says on every receiver that has a root, and
\* dereferences the null root_ of every receiver that has none.
RemoveCorrectOffNullRoot ==
    [][ \A t \in TrieIds, key \in TrieKeys :
          TrieRemove(t, key) =>
              IF tries[t] = NullNode
              THEN trie_last'.outcome \in NullDerefOutcomes
              ELSE /\ trie_last'.outcome = "ok"
                   /\ Contents(trie_nodes', Last(tries')) =
                          [ Contents(trie_nodes, tries[t]) EXCEPT ![key] = NullValue ] ]_vars

\* C6: a step that changes the heap or the list of tries (a Put or a Remove)
\* writes to no node that a trie handed out earlier refers to, so every such
\* trie keeps its root, its nodes and what it maps every key to.
C6_PublishedNodesImmutable ==
    [][ \/ UNCHANGED <<trie_nodes, tries>>
        \/ /\ \A n \in Published : trie_nodes'[n] = trie_nodes[n]
           /\ \A t \in TrieIds :
                 /\ tries'[t] = tries[t]
                 /\ Contents(trie_nodes', tries'[t]) = Contents(trie_nodes, tries[t]) ]_vars

\* a Remove has returned a trie that differs from its receiver and shares a
\* node with it, and a Put on a trie with a root came before it
C6_Witness ==
    /\ trie_last.op = "Remove"
    /\ trie_last.outcome = "ok"
    /\ Len(tries) >= 4
    /\ LET old == tries[trie_last.t]
           new == Last(tries)
       IN  /\ new # NullNode
           /\ new # old
           /\ Contents(trie_nodes, new) # Contents(trie_nodes, old)
           /\ Reach(trie_nodes, new) \cap Reach(trie_nodes, old) # {}
    /\ \E t \in 3 .. (Len(tries) - 1) :
           /\ tries[t] # NullNode
           /\ Reach(trie_nodes, tries[t]) \cap Reach(trie_nodes, tries[2]) # {}
           /\ Contents(trie_nodes, tries[t]) # Contents(trie_nodes, tries[2])

\* the node at address n has neither a child nor a value
DeadNode(h, n) == DOMAIN h[n].children_ = {} /\ ~h[n].is_value_node_

\* C22: in every trie that Put and Remove produce from the empty trie, no node
\* other than the root is both childless and valueless (Remove of a key whose
\* terminal node is childless takes away that node and every ancestor it
\* leaves childless and valueless).
C22_NoDeadNodeBelowRoot ==
    \A t \in TrieIds :
        \A n \in Reach(trie_nodes, tries[t]) \ { tries[t] } : ~DeadNode(trie_nodes, n)

\* C22 for the tries Put returns
C22_PutLeavesNoDeadNode ==
    trie_last.op = "Put" =>
        \A n \in Reach(trie_nodes, Last(tries)) \ { Last(tries) } : ~DeadNode(trie_nodes, n)

====
